---- MODULE Spec2Model ----
(***************************************************************************)
(* Program build subsystem of the OpenCL binding (cl/program.go): the      *)
(* Program entity (native handle + cached device list), BuildProgram with  *)
(* its build-log aggregation on failure, CreateKernel, GetBuildLog and     *)
(* Release.  The native OpenCL layer is the environment: a fake native     *)
(* layer fixed at Init (associated devices, per-device build logs, device  *)
(* names) plus a build status chosen at each build.                        *)
(*                                                                         *)
(* A string is a sequence of atoms: an atom is a word, a whitespace        *)
(* character or the NUL byte.  A Device pointer is modelled by the         *)
(* identity token of the device it points to; NilDevice is the nil         *)
(* pointer and token 0 is a Device whose native id is NULL.                *)
(***************************************************************************)
EXTENDS Integers, Sequences, FiniteSets, TLC

VARIABLES
    clProgram,    \* Program.clProgram: H or NULL
    devices,      \* Program.devices: which backing array the slice shares
    heap,         \* the backing arrays: [prog: program-owned, caller: caller's list]
    natDevices,   \* native layer: outcome of clGetProgramInfo(CL_PROGRAM_DEVICES)
    natLog,       \* native layer: outcome of clGetProgramBuildInfo per device token
    natName,      \* native layer: outcome of Device.Name() per device token
    released,     \* native layer: the handles clReleaseProgram was called with
    reachable,    \* the Program is still referenced by the caller
    ret,          \* the call that has just returned, as the caller sees it
    callers       \* concurrent GetBuildLog calls: position and locals of each

vars == <<clProgram, devices, heap, natDevices, natLog, natName,
          released, reachable, ret, callers>>

-----------------------------------------------------------------------------
(* Bounds *)

NumDevices == 2      \* device identity tokens are 1..NumDevices (0 is the NULL id)
MaxDevices == 2      \* longest device list a caller passes to BuildProgram
NumCallers == 2      \* concurrent callers of GetBuildLog

-----------------------------------------------------------------------------
(* Native constants *)

NULL == 0
H == 1
NilDevice == 0 - 1
ElemSize == 8

CL_SUCCESS == 0
CL_OUT_OF_HOST_MEMORY == 0 - 6
CL_BUILD_PROGRAM_FAILURE == 0 - 11
CL_INVALID_VALUE == 0 - 30
CL_INVALID_DEVICE == 0 - 33
CL_INVALID_PROGRAM == 0 - 44
CL_INVALID_KERNEL_NAME == 0 - 46

NUL == "\\0"
SP == " "
NL == "\n"
PANIC == <<"panic">>

-----------------------------------------------------------------------------
(* Strings *)

IsSpace(c) == c \in {SP, NL, "\t", "\r"}

RECURSIVE TrimLeft(_)
TrimLeft(s) ==
    IF s = <<>> THEN <<>>
    ELSE IF IsSpace(Head(s)) THEN TrimLeft(Tail(s)) ELSE s

RECURSIVE TrimRight(_)
TrimRight(s) ==
    IF s = <<>> THEN <<>>
    ELSE IF IsSpace(s[Len(s)]) THEN TrimRight(SubSeq(s, 1, Len(s) - 1)) ELSE s

\* strings.TrimSpace
TrimSpace(s) == TrimRight(TrimLeft(s))

\* bytes.IndexByte(buf, 0): index of the first NUL, 0 when there is none
IndexNul(buf) ==
    IF \E i \in 1..Len(buf) : buf[i] = NUL
    THEN CHOOSE i \in 1..Len(buf) : buf[i] = NUL /\ \A j \in 1..(i - 1) : buf[j] # NUL
    ELSE 0

\* strings.Join(parts, sep)
RECURSIVE Join(_, _)
Join(parts, sep) ==
    IF parts = <<>> THEN <<>>
    ELSE IF Len(parts) = 1 THEN parts[1]
    ELSE parts[1] \o <<sep>> \o Join(Tail(parts), sep)

HexDigit(n) ==
    <<"0", "1", "2", "3", "4", "5", "6", "7",
      "8", "9", "a", "b", "c", "d", "e", "f">>[n + 1]

\* fmt's %x of an unsigned value
RECURSIVE Hex(_)
Hex(n) == IF n < 16 THEN <<HexDigit(n)>> ELSE Hex(n \div 16) \o <<HexDigit(n % 16)>>

\* s occurs in t as a contiguous run of atoms
Contains(t, s) ==
    \E i \in 0..(Len(t) - Len(s)) : SubSeq(t, i + 1, i + Len(s)) = s

-----------------------------------------------------------------------------
(* Errors *)

\* the nil error
NoError == [kind |-> "nil", code |-> 0, text |-> <<>>]

\* Error() text of the status translator's value for a native code
StatusText(code) ==
    CASE code = CL_OUT_OF_HOST_MEMORY    -> <<"cl: Out Of Host Memory">>
      [] code = CL_BUILD_PROGRAM_FAILURE -> <<"cl: Build Program Failure">>
      [] code = CL_INVALID_VALUE         -> <<"cl: Invalid Value">>
      [] code = CL_INVALID_DEVICE        -> <<"cl: Invalid Device">>
      [] code = CL_INVALID_PROGRAM       -> <<"cl: Invalid Program">>
      [] code = CL_INVALID_KERNEL_NAME   -> <<"cl: Invalid Kernel Name">>
      [] OTHER                           -> <<"cl: error">>

\* toError: native status code -> structured status error
toError(code) == [kind |-> "StatusError", code |-> code, text |-> StatusText(code)]

ErrInvalidProgram == toError(CL_INVALID_PROGRAM)
ErrInvalidDevice == toError(CL_INVALID_DEVICE)

\* fmt.Errorf: an error that is only its text
Errorf(text) == [kind |-> "errorString", code |-> 0, text |-> text]

\* BuildError(s): the composite diagnostic string
BuildError(s) == [kind |-> "BuildError", code |-> 0, text |-> s]

\* err.Error(), as %v prints it
ErrorText(e) ==
    IF e.kind = "BuildError" THEN <<"cl: build error (">> \o e.text \o <<")">>
    ELSE e.text

-----------------------------------------------------------------------------
(* Native layer *)

Tokens == 0..NumDevices

\* clGetProgramBuildInfo(handle, id, CL_PROGRAM_BUILD_LOG, ...): the size query
\* and the fetch each report a status; buf is the raw NUL-terminated buffer
LogOutcome(sizeStatus, fetchStatus, buf) ==
    [sizeStatus |-> sizeStatus, fetchStatus |-> fetchStatus, buf |-> buf]

\* clGetProgramInfo(handle, CL_PROGRAM_DEVICES, ...): the size query and the
\* fetch each report a status; ids is the raw array of native device ids
DevicesOutcome(sizeStatus, fetchStatus, ids) ==
    [sizeStatus |-> sizeStatus, fetchStatus |-> fetchStatus, ids |-> ids]

\* clBuildProgram(handle, n, ids, ...): a NULL handle is CL_INVALID_PROGRAM, a
\* NULL device id in the list is CL_INVALID_DEVICE, otherwise the compiler decides
BuildStatuses(handle, ids) ==
    IF handle = NULL THEN {CL_INVALID_PROGRAM}
    ELSE IF \E i \in 1..Len(ids) : ids[i] = NULL THEN {CL_INVALID_DEVICE}
    ELSE {CL_SUCCESS, CL_BUILD_PROGRAM_FAILURE}

\* clCreateKernel(handle, name, &err): a NULL handle is CL_INVALID_PROGRAM
KernelStatuses(handle) ==
    IF handle = NULL THEN {CL_INVALID_PROGRAM}
    ELSE {CL_SUCCESS, CL_INVALID_KERNEL_NAME}

-----------------------------------------------------------------------------
(* Program *)

\* the contents of p.devices
pDevices == IF devices = "nil" THEN <<>> ELSE heap[devices]

deviceIDKey(d) == IF d = NilDevice THEN 0 ELSE d

\* the label is an unnamed result: when d.Name() panics the deferred recover
\* assigns the local and the function returns the zero string
safeDeviceLabel(d) ==
    IF d = NilDevice THEN <<"device<nil>">>
    ELSE LET key   == deviceIDKey(d)
             label == <<"device@0x">> \o Hex(key)
         IN  IF natName[key] = PANIC THEN <<>>
             ELSE IF TrimSpace(natName[key]) # <<>> THEN TrimSpace(natName[key])
             ELSE label

\* GetBuildLog with the nil-device guard ahead of the released-program guard
GetBuildLogDeviceFirst(device) ==
    IF device = NilDevice
    THEN [log |-> <<>>, err |-> ErrInvalidDevice, queries |-> 0]
    ELSE IF clProgram = NULL
    THEN [log |-> <<>>, err |-> ErrInvalidProgram, queries |-> 0]
    ELSE LET nat == natLog[device]
             buf == nat.buf
             idx == IndexNul(buf)
         IN  IF nat.sizeStatus # CL_SUCCESS
             THEN [log |-> <<>>, err |-> toError(nat.sizeStatus), queries |-> 1]
             ELSE IF Len(buf) = 0
             THEN [log |-> <<>>, err |-> NoError, queries |-> 1]
             ELSE IF nat.fetchStatus # CL_SUCCESS
             THEN [log |-> <<>>, err |-> toError(nat.fetchStatus), queries |-> 2]
             ELSE [log |-> IF idx > 0 THEN SubSeq(buf, 1, idx - 1) ELSE buf,
                   err |-> NoError, queries |-> 2]

\* [log, err, queries]: queries counts the native build-info calls made
GetBuildLog(device) ==
    IF clProgram = NULL
    THEN [log |-> <<>>, err |-> ErrInvalidProgram, queries |-> 0]
    ELSE IF device = NilDevice
    THEN [log |-> <<>>, err |-> ErrInvalidDevice, queries |-> 0]
    ELSE LET nat == natLog[device]
             buf == nat.buf
             idx == IndexNul(buf)
         IN  IF nat.sizeStatus # CL_SUCCESS
             THEN [log |-> <<>>, err |-> toError(nat.sizeStatus), queries |-> 1]
             ELSE IF Len(buf) = 0
             THEN [log |-> <<>>, err |-> NoError, queries |-> 1]
             ELSE IF nat.fetchStatus # CL_SUCCESS
             THEN [log |-> <<>>, err |-> toError(nat.fetchStatus), queries |-> 2]
             ELSE [log |-> IF idx > 0 THEN SubSeq(buf, 1, idx - 1) ELSE buf,
                   err |-> NoError, queries |-> 2]

\* wrapIds that prepends each device instead of appending it
RECURSIVE wrapIdsReversed(_)
wrapIdsReversed(ids) ==
    IF ids = <<>> THEN <<>>
    ELSE IF Head(ids) = NULL THEN wrapIdsReversed(Tail(ids))
    ELSE wrapIdsReversed(Tail(ids)) \o <<Head(ids)>>

\* the non-NULL entries of the native id array, each wrapped as a Device
RECURSIVE wrapIds(_)
wrapIds(ids) ==
    IF ids = <<>> THEN <<>>
    ELSE IF Head(ids) = NULL THEN wrapIds(Tail(ids))
    ELSE <<Head(ids)>> \o wrapIds(Tail(ids))

\* associatedDevices without the status check on the fetch of the array
associatedDevicesUnchecked ==
    IF clProgram = NULL
    THEN [devices |-> <<>>, err |-> ErrInvalidProgram]
    ELSE LET size  == Len(natDevices.ids) * ElemSize
             count == size \div ElemSize
         IN  IF natDevices.sizeStatus # CL_SUCCESS
             THEN [devices |-> <<>>, err |-> toError(natDevices.sizeStatus)]
             ELSE IF size = 0 \/ count <= 0
             THEN [devices |-> <<>>, err |-> NoError]
             ELSE [devices |-> wrapIds(SubSeq(natDevices.ids, 1, count)),
                   err |-> NoError]

\* [devices, err]
associatedDevices ==
    IF clProgram = NULL
    THEN [devices |-> <<>>, err |-> ErrInvalidProgram]
    ELSE LET size  == Len(natDevices.ids) * ElemSize
             count == size \div ElemSize
         IN  IF natDevices.sizeStatus # CL_SUCCESS
             THEN [devices |-> <<>>, err |-> toError(natDevices.sizeStatus)]
             ELSE IF size = 0 \/ count <= 0
             THEN [devices |-> <<>>, err |-> NoError]
             ELSE IF natDevices.fetchStatus # CL_SUCCESS
             THEN [devices |-> <<>>, err |-> toError(natDevices.fetchStatus)]
             ELSE [devices |-> wrapIds(SubSeq(natDevices.ids, 1, count)),
                   err |-> NoError]

\* add without the seen check
RECURSIVE addNoDedup(_, _)
addNoDedup(devs, acc) ==
    IF devs = <<>> THEN acc
    ELSE LET d   == Head(devs)
             key == deviceIDKey(d)
         IN  IF key = 0
             THEN addNoDedup(Tail(devs), acc)
             ELSE addNoDedup(Tail(devs), [seen |-> acc.seen \cup {key},
                                          list |-> Append(acc.list, d)])

\* the closure add of collectDevicesForLogs: acc is [seen, list]
RECURSIVE add(_, _)
add(devs, acc) ==
    IF devs = <<>> THEN acc
    ELSE LET d   == Head(devs)
             key == deviceIDKey(d)
         IN  IF key = 0 \/ key \in acc.seen
             THEN add(Tail(devs), acc)
             ELSE add(Tail(devs), [seen |-> acc.seen \cup {key},
                                   list |-> Append(acc.list, d)])

\* [list, err, discovered]: discovered tells whether associatedDevices was asked
collectDevicesForLogs(requested) ==
    LET known == add(pDevices, add(requested, [seen |-> {}, list |-> <<>>]))
        prog  == associatedDevices
    IN  IF Len(known.list) = 0
        THEN IF prog.err = NoError
             THEN [list |-> add(prog.devices, known).list, err |-> NoError,
                   discovered |-> TRUE]
             ELSE [list |-> <<>>, err |-> prog.err, discovered |-> TRUE]
        ELSE [list |-> known.list, err |-> NoError, discovered |-> FALSE]

\* logSection without the empty-log check
logSectionNoSuppress(dev) ==
    LET label == safeDeviceLabel(dev)
        got   == GetBuildLog(dev)
        log   == TrimSpace(got.log)
    IN  IF got.err # NoError
        THEN <<label \o <<": <unable to fetch build log: ">>
                     \o ErrorText(got.err) \o <<">">> >>
        ELSE <<label \o <<":", NL>> \o log>>

\* logSection that adds nothing for a failed fetch
logSectionDropsFailures(dev) ==
    LET label == safeDeviceLabel(dev)
        got   == GetBuildLog(dev)
        log   == TrimSpace(got.log)
    IN  IF got.err # NoError \/ log = <<>> THEN <<>>
        ELSE <<label \o <<":", NL>> \o log>>

\* one iteration of the loop of collectBuildLogs: the sections dev contributes
logSection(dev) ==
    LET label == safeDeviceLabel(dev)
        got   == GetBuildLog(dev)
        log   == TrimSpace(got.log)
    IN  IF got.err # NoError
        THEN <<label \o <<": <unable to fetch build log: ">>
                     \o ErrorText(got.err) \o <<">">> >>
        ELSE IF log = <<>> THEN <<>>
        ELSE <<label \o <<":", NL>> \o log>>

\* collectBuildLogs that leaves the loop at the first failed fetch
RECURSIVE collectBuildLogsAbort(_)
collectBuildLogsAbort(devs) ==
    IF devs = <<>> THEN <<>>
    ELSE IF GetBuildLog(Head(devs)).err # NoError THEN logSection(Head(devs))
    ELSE logSection(Head(devs)) \o collectBuildLogsAbort(Tail(devs))

RECURSIVE collectBuildLogs(_)
collectBuildLogs(devs) ==
    IF devs = <<>> THEN <<>>
    ELSE logSection(Head(devs)) \o collectBuildLogs(Tail(devs))

\* wrapBuildError that goes on to the logs when the resolution failed
wrapBuildErrorDropsReason(code, requested) ==
    LET res    == collectDevicesForLogs(requested)
        logs   == collectBuildLogs(res.list)
        status == <<"status=">> \o ErrorText(toError(code))
    IN  IF Len(logs) = 0
        THEN [err |-> toError(code), resolved |-> res.list, logs |-> logs,
              discovered |-> res.discovered]
        ELSE [err |-> BuildError(Join(<<status>> \o logs, NL)),
              resolved |-> res.list, logs |-> logs, discovered |-> res.discovered]

\* wrapBuildError without the fallback to the plain status error
wrapBuildErrorNoFallback(code, requested) ==
    LET res    == collectDevicesForLogs(requested)
        logs   == collectBuildLogs(res.list)
        status == <<"status=">> \o ErrorText(toError(code))
    IN  IF res.err # NoError
        THEN [err |-> Errorf(<<"cl: build error (">> \o ErrorText(toError(code))
                             \o <<"; log unavailable: ">> \o ErrorText(res.err)
                             \o <<")">>),
              resolved |-> <<>>, logs |-> <<>>, discovered |-> res.discovered]
        ELSE [err |-> BuildError(Join(<<status>> \o logs, NL)),
              resolved |-> res.list, logs |-> logs, discovered |-> res.discovered]

\* wrapBuildError returning the failure of the device resolution itself
wrapBuildErrorEscalates(code, requested) ==
    LET res    == collectDevicesForLogs(requested)
        logs   == collectBuildLogs(res.list)
        status == <<"status=">> \o ErrorText(toError(code))
    IN  IF res.err # NoError
        THEN [err |-> res.err, resolved |-> <<>>, logs |-> <<>>,
              discovered |-> res.discovered]
        ELSE IF Len(logs) = 0
        THEN [err |-> toError(code), resolved |-> res.list, logs |-> logs,
              discovered |-> res.discovered]
        ELSE [err |-> BuildError(Join(<<status>> \o logs, NL)),
              resolved |-> res.list, logs |-> logs, discovered |-> res.discovered]

\* [err, resolved, logs]: resolved and logs are what the collection saw
wrapBuildError(code, requested) ==
    LET res    == collectDevicesForLogs(requested)
        logs   == collectBuildLogs(res.list)
        status == <<"status=">> \o ErrorText(toError(code))
    IN  IF res.err # NoError
        THEN [err |-> Errorf(<<"cl: build error (">> \o ErrorText(toError(code))
                             \o <<"; log unavailable: ">> \o ErrorText(res.err)
                             \o <<")">>),
              resolved |-> <<>>, logs |-> <<>>, discovered |-> res.discovered]
        ELSE IF Len(logs) = 0
        THEN [err |-> toError(code), resolved |-> res.list, logs |-> logs,
              discovered |-> res.discovered]
        ELSE [err |-> BuildError(Join(<<status>> \o logs, NL)),
              resolved |-> res.list, logs |-> logs, discovered |-> res.discovered]

-----------------------------------------------------------------------------
(* Calls *)

\* the caller holds no result
NoCall ==
    [op |-> "none", requested |-> <<>>, device |-> NilDevice, status |-> CL_SUCCESS,
     err |-> NoError, log |-> <<>>, resolved |-> <<>>, logs |-> <<>>,
     discovered |-> FALSE, native |-> 0, again |-> FALSE]

\* lists of non-nil Device pointers a caller may pass to BuildProgram
RECURSIVE SeqsUpTo(_, _)
SeqsUpTo(S, n) ==
    IF n = 0 THEN {<<>>}
    ELSE LET shorter == SeqsUpTo(S, n - 1)
         IN  shorter \cup {Append(s, x) : s \in {t \in shorter : Len(t) = n - 1}, x \in S}

DeviceLists == SeqsUpTo(Tokens, MaxDevices)

\* p.devices = devices: the cache shares the caller's array
copyDevicesAlias(requested) == [devices |-> "caller", prog |-> <<>>]

\* p.devices = append([]*Device(nil), devices...): a fresh program-owned array
copyDevices(requested) == [devices |-> "prog", prog |-> requested]

\* releaseProgram that leaves the cached device list in place
releaseProgramKeepsDevices ==
    /\ IF clProgram # NULL
       THEN /\ released' = Append(released, clProgram)
            /\ clProgram' = NULL
       ELSE UNCHANGED <<clProgram, released>>
    /\ UNCHANGED <<devices, heap>>

\* releaseProgram without the check that the handle is present
releaseProgramNoGuard ==
    /\ released' = Append(released, clProgram)
    /\ clProgram' = NULL
    /\ devices' = "nil"
    /\ heap' = [heap EXCEPT !.prog = <<>>]

\* p.clProgram, p.devices and native release calls after releaseProgram(p)
releaseProgram ==
    /\ IF clProgram # NULL
       THEN /\ released' = Append(released, clProgram)
            /\ clProgram' = NULL
       ELSE UNCHANGED <<clProgram, released>>
    /\ devices' = "nil"
    /\ heap' = [heap EXCEPT !.prog = <<>>]

Release ==
    /\ UNCHANGED callers
    /\ reachable /\ ret.op = "none"
    /\ releaseProgram
    /\ ret' = [NoCall EXCEPT !.op = "Release",
                   !.native = Len(released') - Len(released)]
    /\ UNCHANGED <<natDevices, natLog, natName, reachable>>

\* the finalizer set on the Program runs releaseProgram once it is unreachable
Finalizer ==
    /\ UNCHANGED callers
    /\ reachable /\ ret.op = "none"
    /\ releaseProgram
    /\ reachable' = FALSE
    /\ ret' = [NoCall EXCEPT !.op = "finalizer",
                   !.native = Len(released') - Len(released)]
    /\ UNCHANGED <<natDevices, natLog, natName>>

\* BuildProgram querying the associated devices whenever the request is empty
BuildProgramAlwaysDiscovers(requested, status) ==
    /\ UNCHANGED callers
    /\ reachable /\ ret.op = "none"
    /\ status \in BuildStatuses(clProgram, requested)
    /\ IF status # CL_SUCCESS
       THEN LET w == wrapBuildError(status, requested)
            IN  /\ ret' = [NoCall EXCEPT !.op = "Build", !.requested = requested,
                               !.status = status,
                               !.err = IF w.err # NoError THEN w.err ELSE toError(status),
                               !.resolved = w.resolved, !.logs = w.logs,
                               !.discovered = w.discovered]
                /\ heap' = [heap EXCEPT !.caller = requested]
                /\ UNCHANGED devices
       ELSE IF Len(requested) > 0
       THEN /\ devices' = copyDevices(requested).devices
            /\ heap' = [prog   |-> IF copyDevices(requested).devices = "prog"
                                   THEN copyDevices(requested).prog ELSE heap.prog,
                        caller |-> requested]
            /\ ret' = [NoCall EXCEPT !.op = "Build", !.requested = requested,
                           !.status = status]
       ELSE IF TRUE
       THEN LET prog == associatedDevices
            IN  /\ IF prog.err = NoError /\ Len(prog.devices) > 0
                   THEN /\ devices' = "prog"
                        /\ heap' = [prog |-> prog.devices, caller |-> requested]
                   ELSE /\ UNCHANGED devices
                        /\ heap' = [heap EXCEPT !.caller = requested]
                /\ ret' = [NoCall EXCEPT !.op = "Build", !.requested = requested,
                               !.status = status, !.discovered = TRUE]
       ELSE /\ UNCHANGED devices
            /\ heap' = [heap EXCEPT !.caller = requested]
            /\ ret' = [NoCall EXCEPT !.op = "Build", !.requested = requested,
                           !.status = status]
    /\ UNCHANGED <<clProgram, natDevices, natLog, natName, released, reachable>>

\* BuildProgram caching the devices it discovered for the logs of a failed build
BuildProgramCachesOnFailure(requested, status) ==
    /\ UNCHANGED callers
    /\ reachable /\ ret.op = "none"
    /\ status \in BuildStatuses(clProgram, requested)
    /\ IF status # CL_SUCCESS
       THEN LET w == wrapBuildError(status, requested)
            IN  /\ ret' = [NoCall EXCEPT !.op = "Build", !.requested = requested,
                               !.status = status,
                               !.err = IF w.err # NoError THEN w.err ELSE toError(status),
                               !.resolved = w.resolved, !.logs = w.logs,
                               !.discovered = w.discovered]
                /\ IF w.discovered /\ Len(w.resolved) > 0
                   THEN /\ devices' = "prog"
                        /\ heap' = [prog |-> w.resolved, caller |-> requested]
                   ELSE /\ UNCHANGED devices
                        /\ heap' = [heap EXCEPT !.caller = requested]
       ELSE IF Len(requested) > 0
       THEN /\ devices' = copyDevices(requested).devices
            /\ heap' = [prog   |-> IF copyDevices(requested).devices = "prog"
                                   THEN copyDevices(requested).prog ELSE heap.prog,
                        caller |-> requested]
            /\ ret' = [NoCall EXCEPT !.op = "Build", !.requested = requested,
                           !.status = status]
       ELSE IF Len(pDevices) = 0
       THEN LET prog == associatedDevices
            IN  /\ IF prog.err = NoError /\ Len(prog.devices) > 0
                   THEN /\ devices' = "prog"
                        /\ heap' = [prog |-> prog.devices, caller |-> requested]
                   ELSE /\ UNCHANGED devices
                        /\ heap' = [heap EXCEPT !.caller = requested]
                /\ ret' = [NoCall EXCEPT !.op = "Build", !.requested = requested,
                               !.status = status, !.discovered = TRUE]
       ELSE /\ UNCHANGED devices
            /\ heap' = [heap EXCEPT !.caller = requested]
            /\ ret' = [NoCall EXCEPT !.op = "Build", !.requested = requested,
                           !.status = status]
    /\ UNCHANGED <<clProgram, natDevices, natLog, natName, released, reachable>>

\* BuildProgram caching the requested devices whatever the native build reports
BuildProgramCachesRequested(requested, status) ==
    /\ UNCHANGED callers
    /\ reachable /\ ret.op = "none"
    /\ status \in BuildStatuses(clProgram, requested)
    /\ IF status # CL_SUCCESS
       THEN LET w == wrapBuildError(status, requested)
            IN  /\ ret' = [NoCall EXCEPT !.op = "Build", !.requested = requested,
                               !.status = status,
                               !.err = IF w.err # NoError THEN w.err ELSE toError(status),
                               !.resolved = w.resolved, !.logs = w.logs,
                               !.discovered = w.discovered]
                /\ IF Len(requested) > 0
                   THEN /\ devices' = "prog"
                        /\ heap' = [prog |-> requested, caller |-> requested]
                   ELSE /\ UNCHANGED devices
                        /\ heap' = [heap EXCEPT !.caller = requested]
       ELSE IF Len(requested) > 0
       THEN /\ devices' = copyDevices(requested).devices
            /\ heap' = [prog   |-> IF copyDevices(requested).devices = "prog"
                                   THEN copyDevices(requested).prog ELSE heap.prog,
                        caller |-> requested]
            /\ ret' = [NoCall EXCEPT !.op = "Build", !.requested = requested,
                           !.status = status]
       ELSE IF Len(pDevices) = 0
       THEN LET prog == associatedDevices
            IN  /\ IF prog.err = NoError /\ Len(prog.devices) > 0
                   THEN /\ devices' = "prog"
                        /\ heap' = [prog |-> prog.devices, caller |-> requested]
                   ELSE /\ UNCHANGED devices
                        /\ heap' = [heap EXCEPT !.caller = requested]
                /\ ret' = [NoCall EXCEPT !.op = "Build", !.requested = requested,
                               !.status = status, !.discovered = TRUE]
       ELSE /\ UNCHANGED devices
            /\ heap' = [heap EXCEPT !.caller = requested]
            /\ ret' = [NoCall EXCEPT !.op = "Build", !.requested = requested,
                           !.status = status]
    /\ UNCHANGED <<clProgram, natDevices, natLog, natName, released, reachable>>

\* BuildProgram(devices, options) with the status the native build reports
BuildProgram(requested, status) ==
    /\ UNCHANGED callers
    /\ reachable /\ ret.op = "none"
    /\ status \in BuildStatuses(clProgram, requested)
    /\ IF status # CL_SUCCESS
       THEN LET w == wrapBuildError(status, requested)
            IN  /\ ret' = [NoCall EXCEPT !.op = "Build", !.requested = requested,
                               !.status = status,
                               !.err = IF w.err # NoError THEN w.err ELSE toError(status),
                               !.resolved = w.resolved, !.logs = w.logs,
                               !.discovered = w.discovered]
                /\ heap' = [heap EXCEPT !.caller = requested]
                /\ UNCHANGED devices
       ELSE IF Len(requested) > 0
       THEN /\ devices' = copyDevices(requested).devices
            /\ heap' = [prog   |-> IF copyDevices(requested).devices = "prog"
                                   THEN copyDevices(requested).prog ELSE heap.prog,
                        caller |-> requested]
            /\ ret' = [NoCall EXCEPT !.op = "Build", !.requested = requested,
                           !.status = status]
       ELSE IF Len(pDevices) = 0
       THEN LET prog == associatedDevices
            IN  /\ IF prog.err = NoError /\ Len(prog.devices) > 0
                   THEN /\ devices' = "prog"
                        /\ heap' = [prog |-> prog.devices, caller |-> requested]
                   ELSE /\ UNCHANGED devices
                        /\ heap' = [heap EXCEPT !.caller = requested]
                /\ ret' = [NoCall EXCEPT !.op = "Build", !.requested = requested,
                               !.status = status, !.discovered = TRUE]
       ELSE /\ UNCHANGED devices
            /\ heap' = [heap EXCEPT !.caller = requested]
            /\ ret' = [NoCall EXCEPT !.op = "Build", !.requested = requested,
                           !.status = status]
    /\ UNCHANGED <<clProgram, natDevices, natLog, natName, released, reachable>>

CreateKernel(status) ==
    /\ UNCHANGED callers
    /\ reachable /\ ret.op = "none"
    /\ status \in KernelStatuses(clProgram)
    /\ ret' = [NoCall EXCEPT !.op = "CreateKernel", !.status = status,
                   !.err = IF status # CL_SUCCESS THEN toError(status) ELSE NoError]
    /\ UNCHANGED <<clProgram, devices, heap, natDevices, natLog, natName,
                   released, reachable>>

GetBuildLogCall(device) ==
    /\ UNCHANGED callers
    /\ reachable /\ ret.op = "none"
    /\ LET got == GetBuildLog(device)
       IN  ret' = [NoCall EXCEPT !.op = "GetBuildLog", !.device = device,
                       !.err = got.err, !.log = got.log, !.native = got.queries]
    /\ UNCHANGED <<clProgram, devices, heap, natDevices, natLog, natName,
                   released, reachable>>

\* GetBuildLog that gives the Program up when the native layer reports an error
GetBuildLogReleasesOnError(device) ==
    /\ UNCHANGED callers
    /\ reachable /\ ret.op = "GetBuildLog"
    /\ LET got == GetBuildLog(device)
       IN  /\ ret' = [NoCall EXCEPT !.op = "GetBuildLog", !.device = device,
                          !.err = got.err, !.log = got.log, !.native = got.queries,
                          !.again = TRUE]
           /\ IF got.err # NoError /\ got.queries > 0
              THEN releaseProgram
              ELSE UNCHANGED <<clProgram, devices, heap, released>>
    /\ UNCHANGED <<natDevices, natLog, natName, reachable>>

\* the caller calls GetBuildLog again, straight after a GetBuildLog call
GetBuildLogAgain(device) ==
    /\ UNCHANGED callers
    /\ reachable /\ ret.op = "GetBuildLog"
    /\ LET got == GetBuildLog(device)
       IN  ret' = [NoCall EXCEPT !.op = "GetBuildLog", !.device = device,
                       !.err = got.err, !.log = got.log, !.native = got.queries,
                       !.again = TRUE]
    /\ UNCHANGED <<clProgram, devices, heap, natDevices, natLog, natName,
                   released, reachable>>

\* after BuildProgram has returned the caller reuses its list: it clears the entries
CallerOverwrite ==
    /\ UNCHANGED callers
    /\ ret.op = "Build" /\ heap.caller = ret.requested
    /\ Len(heap.caller) > 0
    /\ heap' = [heap EXCEPT !.caller = [i \in 1..Len(heap.caller) |-> NilDevice]]
    /\ UNCHANGED <<clProgram, devices, natDevices, natLog, natName,
                   released, reachable, ret>>

\* the caller is done with the result and with the list it passed
Return ==
    /\ UNCHANGED callers
    /\ ret.op \notin {"none", "finalizer"}
    /\ ret' = NoCall
    /\ heap' = [heap EXCEPT !.caller = <<>>]
    /\ UNCHANGED <<clProgram, devices, natDevices, natLog, natName,
                   released, reachable>>

-----------------------------------------------------------------------------
(* Concurrent GetBuildLog calls, statement by statement *)

Callers == 1..NumCallers

\* a caller that is not inside GetBuildLog
IdleCaller ==
    [pc |-> "idle", device |-> NilDevice, size |-> 0, buf |-> <<>>,
     err |-> NoError, log |-> <<>>]

\* one buffer for every call instead of a buffer made by each call
bufOfShared(t) == 1

\* buf := make([]byte, int(size)): the buffer call t fetches into is its own
bufOf(t) == t

sequentialVars ==
    <<clProgram, devices, heap, natDevices, natLog, natName, released, reachable, ret>>

GetBuildLogEnter(t, device) ==
    /\ reachable /\ callers[t].pc = "idle"
    /\ callers' = [callers EXCEPT ![t] = [IdleCaller EXCEPT !.pc = "guard",
                                                             !.device = device]]
    /\ UNCHANGED sequentialVars

\* the guards on the handle and on the device
GetBuildLogGuard(t) ==
    /\ callers[t].pc = "guard"
    /\ callers' = [callers EXCEPT ![t] =
          IF clProgram = NULL THEN [@ EXCEPT !.pc = "done", !.err = ErrInvalidProgram]
          ELSE IF @.device = NilDevice
          THEN [@ EXCEPT !.pc = "done", !.err = ErrInvalidDevice]
          ELSE [@ EXCEPT !.pc = "size"]]
    /\ UNCHANGED sequentialVars

\* the size query
GetBuildLogSize(t) ==
    /\ callers[t].pc = "size"
    /\ LET nat == natLog[callers[t].device]
       IN  callers' = [callers EXCEPT ![t] =
              IF nat.sizeStatus # CL_SUCCESS
              THEN [@ EXCEPT !.pc = "done", !.err = toError(nat.sizeStatus)]
              ELSE IF Len(nat.buf) = 0 THEN [@ EXCEPT !.pc = "done"]
              ELSE [@ EXCEPT !.pc = "fetch", !.size = Len(nat.buf)]]
    /\ UNCHANGED sequentialVars

\* the buffer and the fetch into it
GetBuildLogFetch(t) ==
    /\ callers[t].pc = "fetch"
    /\ LET nat == natLog[callers[t].device]
       IN  IF nat.fetchStatus # CL_SUCCESS
           THEN callers' = [callers EXCEPT ![t].pc = "done",
                                           ![t].err = toError(nat.fetchStatus)]
           ELSE callers' = [callers EXCEPT ![t].pc = "trim",
                               ![bufOf(t)].buf = SubSeq(nat.buf, 1, callers[t].size)]
    /\ UNCHANGED sequentialVars

\* the cut at the first NUL and the return of the string
GetBuildLogTrim(t) ==
    /\ callers[t].pc = "trim"
    /\ LET buf == callers[bufOf(t)].buf
           idx == IndexNul(buf)
       IN  callers' = [callers EXCEPT ![t].pc = "done",
                          ![t].log = IF idx > 0 THEN SubSeq(buf, 1, idx - 1) ELSE buf]
    /\ UNCHANGED sequentialVars

\* the caller has taken the result
GetBuildLogLeave(t) ==
    /\ callers[t].pc = "done"
    /\ callers' = [callers EXCEPT ![t] = IdleCaller]
    /\ UNCHANGED sequentialVars

-----------------------------------------------------------------------------
(* Fake native layers *)

Ascending == [i \in 1..NumDevices |-> i]

\* arrays clGetProgramInfo may report: none, every device, and a reordered
\* array with a NULL entry
NativeIdArrays ==
    {<<>>, Ascending, <<NumDevices, NULL>> \o SubSeq(Ascending, 1, NumDevices - 1)}

NativeDevices ==
    {DevicesOutcome(CL_SUCCESS, CL_SUCCESS, ids) : ids \in NativeIdArrays}
    \cup {DevicesOutcome(CL_OUT_OF_HOST_MEMORY, CL_SUCCESS, Ascending),
          DevicesOutcome(CL_SUCCESS, CL_INVALID_VALUE, Ascending)}

\* per-device build-log outcomes: a compiler log, no log, a failing size query,
\* a blank log, a failing fetch, a log with bytes after its terminator
LogCycle ==
    <<LogOutcome(CL_SUCCESS, CL_SUCCESS, <<"error: syntax", NL, NUL>>),
      LogOutcome(CL_SUCCESS, CL_SUCCESS, <<>>),
      LogOutcome(CL_OUT_OF_HOST_MEMORY, CL_SUCCESS, <<>>),
      LogOutcome(CL_SUCCESS, CL_SUCCESS, <<SP, NL>>),
      LogOutcome(CL_SUCCESS, CL_INVALID_VALUE, <<"warning", NUL>>),
      LogOutcome(CL_SUCCESS, CL_SUCCESS, <<NL, "warning", SP, NUL, "junk", NUL>>)>>

\* outcomes of Device.Name(): two names with blanks around them, a panic, a
\* name that does not resolve
NameCycle(d) ==
    <<<<SP, "GPU", HexDigit(d - 1), NL>>, <<"GPU", HexDigit(d - 1)>>, PANIC, <<SP>>>>

\* fake native layer k: device d gets the outcomes of the cycles in turn from
\* position k on; a Device whose id is NULL is CL_INVALID_DEVICE and has no name
NativeLog(k) ==
    [d \in Tokens |-> IF d = 0 THEN LogOutcome(CL_INVALID_DEVICE, CL_SUCCESS, <<>>)
                      ELSE LogCycle[((d - 1 + k) % Len(LogCycle)) + 1]]

NativeName(k) ==
    [d \in Tokens |-> IF d = 0 THEN <<>>
                      ELSE NameCycle(d)[((d - 1 + k) % Len(NameCycle(d))) + 1]]

NativeLayers == 0..(Len(LogCycle) - 1)

-----------------------------------------------------------------------------
(* Specification *)

Init ==
    /\ clProgram = H
    /\ devices = "nil"
    /\ heap = [prog |-> <<>>, caller |-> <<>>]
    /\ natDevices \in NativeDevices
    /\ \E k \in NativeLayers : natLog = NativeLog(k) /\ natName = NativeName(k)
    /\ released = <<>>
    /\ reachable = TRUE
    /\ ret = NoCall
    /\ callers = [t \in Callers |-> IdleCaller]

Next ==
    \/ \E requested \in DeviceLists, status \in {CL_SUCCESS, CL_BUILD_PROGRAM_FAILURE,
                                                   CL_INVALID_DEVICE, CL_INVALID_PROGRAM} :
          BuildProgram(requested, status)
    \/ \E status \in {CL_SUCCESS, CL_INVALID_KERNEL_NAME, CL_INVALID_PROGRAM} :
          CreateKernel(status)
    \/ \E device \in Tokens \cup {NilDevice} : GetBuildLogCall(device)
    \/ \E device \in Tokens \cup {NilDevice} : GetBuildLogAgain(device)
    \/ Release
    \/ Finalizer
    \/ CallerOverwrite
    \/ Return

Spec == Init /\ [][Next]_vars

\* a Program built for every device of its context, before any release
InitConcurrent ==
    /\ clProgram = H
    /\ devices = "prog"
    /\ heap = [prog |-> Ascending, caller |-> <<>>]
    /\ natDevices = DevicesOutcome(CL_SUCCESS, CL_SUCCESS, Ascending)
    /\ \E k \in NativeLayers : natLog = NativeLog(k) /\ natName = NativeName(k)
    /\ released = <<>>
    /\ reachable = TRUE
    /\ ret = NoCall
    /\ callers = [t \in Callers |-> IdleCaller]

\* GetBuildLog calls of several callers, interleaved; no Build, no Release
NextConcurrent ==
    \E t \in Callers :
        \/ \E device \in Tokens \cup {NilDevice} : GetBuildLogEnter(t, device)
        \/ GetBuildLogGuard(t)
        \/ GetBuildLogSize(t)
        \/ GetBuildLogFetch(t)
        \/ GetBuildLogTrim(t)
        \/ GetBuildLogLeave(t)

SpecConcurrent == InitConcurrent /\ [][NextConcurrent]_vars

-----------------------------------------------------------------------------
(* Properties *)

IsBuild == ret.op = "Build"
BuildSucceeded == IsBuild /\ ret.status = CL_SUCCESS
BuildFailed == IsBuild /\ ret.status # CL_SUCCESS

\* the native layer answers the associated-devices query without an error
DiscoveryAnswers ==
    /\ natDevices.sizeStatus = CL_SUCCESS
    /\ natDevices.ids = <<>> \/ natDevices.fetchStatus = CL_SUCCESS

NonNullId(id) == id # NULL

\* C1: Release is idempotent: whatever the state, after Release the handle is
\* absent, the cached device list is empty and no error is signalled; a
\* Release of an already released Program leaves the state as it was.
C1_ReleaseIdempotent ==
    [][ret'.op = "Release" =>
          /\ clProgram' = NULL /\ pDevices' = <<>> /\ ret'.err = NoError
          /\ clProgram = NULL =>
                clProgram' = clProgram /\ pDevices' = pDevices /\ released' = released]_vars

\* a second Release has returned: it found no handle to release
C1_Witness ==
    ret.op = "Release" /\ ret.native = 0 /\ released = <<H>> /\ clProgram = NULL

\* C2: the native release is called at most once for the handle and never
\* with an absent handle, whatever the sequence of operations.
C2_ReleaseAtMostOnce ==
    /\ Len(released) <= 1
    /\ \A i \in 1..Len(released) : released[i] # NULL

\* the finalizer ran on a Program that had been released explicitly
C2_Witness ==
    ret.op = "finalizer" /\ ret.native = 0 /\ released = <<H>>

\* C3: once released, every later Build, CreateKernel and GetBuildLog fails
\* with the InvalidProgram error and the handle never becomes present again.
C3_ReleasedIsTerminal ==
    /\ [](clProgram = NULL /\ ret.op \in {"Build", "CreateKernel", "GetBuildLog"}
            => ret.err = ErrInvalidProgram)
    /\ [][clProgram = NULL => clProgram' = NULL]_vars

\* C4: GetBuildLog on a released Program is InvalidProgram for any device, on
\* a live Program with a nil device InvalidDevice, and neither asks the native
\* layer for a build log.
C4_GetBuildLogGuards ==
    ret.op = "GetBuildLog" =>
        /\ clProgram = NULL => ret.err = ErrInvalidProgram /\ ret.native = 0
        /\ clProgram # NULL /\ ret.device = NilDevice =>
              ret.err = ErrInvalidDevice /\ ret.native = 0

\* both guards apply and the program guard wins
C4_Witness ==
    /\ ret.op = "GetBuildLog" /\ clProgram = NULL /\ ret.device = NilDevice
    /\ ret.err = ErrInvalidProgram

\* C5: after a successful Build with a non-empty list the cached devices are
\* exactly that list (order and duplicates kept), also after the caller has
\* changed its own list.
C5_DeviceSetPreserved ==
    BuildSucceeded /\ Len(ret.requested) > 0 =>
        ret.err = NoError /\ pDevices = ret.requested

\* a list with a duplicate was cached, the native layer would report another
\* list, and the caller has since cleared its list
C5_Witness ==
    /\ BuildSucceeded /\ ret.requested = <<2, 2>> /\ pDevices = <<2, 2>>
    /\ heap.caller # ret.requested
    /\ DiscoveryAnswers /\ natDevices.ids = Ascending

\* C6: after a successful Build with an empty list on a Program without
\* cached devices, the cache holds the devices the native layer reports, in
\* the reported order.
C6_AutoDiscovery ==
    BuildSucceeded /\ ret.requested = <<>> /\ ret.discovered /\ DiscoveryAnswers =>
        pDevices = SelectSeq(natDevices.ids, NonNullId)

\* the native layer reported every device, not in ascending order
C6_Witness ==
    /\ BuildSucceeded /\ ret.requested = <<>> /\ ret.discovered /\ DiscoveryAnswers
    /\ Len(pDevices) = NumDevices /\ pDevices # Ascending

\* C7: when auto-discovery fails after a successful native build, Build still
\* reports success and the cache stays empty.
C7_DiscoveryFailureSwallowed ==
    BuildSucceeded /\ ret.requested = <<>> /\ ret.discovered /\ ~DiscoveryAnswers =>
        ret.err = NoError /\ pDevices = <<>>

\* the fetch of the device array failed after the size query had succeeded
C7_Witness ==
    /\ BuildSucceeded /\ ret.requested = <<>> /\ ret.discovered
    /\ natDevices.sizeStatus = CL_SUCCESS /\ natDevices.fetchStatus # CL_SUCCESS
    /\ ret.err = NoError

\* the devices of s whose identity did not occur earlier in s
RECURSIVE FirstOccurrences(_, _)
FirstOccurrences(s, i) ==
    IF i > Len(s) THEN <<>>
    ELSE (IF \E j \in 1..(i - 1) : deviceIDKey(s[j]) = deviceIDKey(s[i])
          THEN <<>> ELSE <<s[i]>>) \o FirstOccurrences(s, i + 1)

HasIdentity(d) == deviceIDKey(d) # 0

\* the resolution for log aggregation used the requested and cached devices
ResolvedFromUnion == BuildFailed /\ ~ret.discovered

\* C8 as stated: the resolved set is the requested devices followed by the
\* cached devices with later duplicates by identity token dropped.
C8_DedupAsStated ==
    ResolvedFromUnion =>
        ret.resolved = FirstOccurrences(ret.requested \o pDevices, 1)

\* C8: the resolved set is the requested devices followed by the cached
\* devices, without the devices whose identity token is null and with later
\* duplicates by identity token dropped; no token appears twice.
C8_Dedup ==
    ResolvedFromUnion =>
        /\ ret.resolved =
              FirstOccurrences(SelectSeq(ret.requested \o pDevices, HasIdentity), 1)
        /\ \A i, j \in 1..Len(ret.resolved) :
              i # j => deviceIDKey(ret.resolved[i]) # deviceIDKey(ret.resolved[j])

\* requested and cached overlap and the cached duplicate is dropped
C8_Witness ==
    /\ ResolvedFromUnion /\ ret.requested = <<1, 1>> /\ pDevices = <<2, 1>>
    /\ ret.resolved = <<1, 2>>

\* the native layer (or the released-program guard) fails the log fetch for d
FetchFails(d) ==
    \/ clProgram = NULL
    \/ natLog[d].sizeStatus # CL_SUCCESS
    \/ natLog[d].buf # <<>> /\ natLog[d].fetchStatus # CL_SUCCESS

\* the text of the native buffer of d up to its first NUL
NativeLogText(d) ==
    LET buf == natLog[d].buf
        n   == CHOOSE m \in 0..Len(buf) :
                  /\ \A j \in 1..m : buf[j] # NUL
                  /\ m < Len(buf) => buf[m + 1] = NUL
    IN  SubSeq(buf, 1, n)

\* d has a log that is not blank
HasLog(d) == ~FetchFails(d) /\ \E j \in 1..Len(NativeLogText(d)) : ~IsSpace(NativeLogText(d)[j])

Contributes(d) == FetchFails(d) \/ HasLog(d)

\* the section of the i-th resolved device, when it contributes one
SectionIndex(i) == Cardinality({j \in 1..i : Contributes(ret.resolved[j])})

EndsWith(t, s) == Len(t) >= Len(s) /\ SubSeq(t, Len(t) - Len(s) + 1, Len(t)) = s

\* the build failed and the devices for the logs were resolved
LogsCollected == BuildFailed /\ ret.err.kind # "errorString"

\* C9: a failed log fetch does not end the aggregation: every resolved device
\* is visited in order, a failing one contributes an "unable to fetch build
\* log" section and every later device with a log contributes its section.
C9_GracefulDegradation ==
    LogsCollected =>
        \A i \in 1..Len(ret.resolved) :
            LET d == ret.resolved[i]
            IN  /\ FetchFails(d) =>
                      /\ SectionIndex(i) <= Len(ret.logs)
                      /\ Contains(ret.logs[SectionIndex(i)],
                                  <<": <unable to fetch build log: ">>)
                /\ HasLog(d) =>
                      /\ SectionIndex(i) <= Len(ret.logs)
                      /\ EndsWith(ret.logs[SectionIndex(i)],
                                  <<":", NL>> \o TrimSpace(NativeLogText(d)))

\* the first device failed its fetch and the second still has its section
C9_Witness ==
    /\ LogsCollected /\ Len(ret.resolved) = 2 /\ Len(ret.logs) = 2
    /\ FetchFails(ret.resolved[1]) /\ HasLog(ret.resolved[2])
    /\ Contains(ret.logs[1], <<": <unable to fetch build log: ">>)
    /\ ret.err.kind = "BuildError"

\* the end-to-end scenario: Build with an empty list fails with -11, the
\* devices are discovered, GPU0 has the log "error: syntax\n", GPU1 has none
EndToEnd ==
    /\ BuildFailed /\ ret.status = CL_BUILD_PROGRAM_FAILURE
    /\ ret.requested = <<>> /\ ret.discovered /\ ret.resolved = <<1, 2>>
    /\ natName[1] # PANIC /\ TrimSpace(natName[1]) = <<"GPU", "0">>
    /\ natName[2] # PANIC /\ TrimSpace(natName[2]) = <<"GPU", "1">>
    /\ ~FetchFails(1) /\ NativeLogText(1) = <<"error: syntax", NL>>
    /\ ~FetchFails(2) /\ NativeLogText(2) = <<>>

\* C10: a device whose trimmed log is empty contributes no section: there
\* are as many sections as devices with a failed fetch or a non-blank log,
\* and in the end-to-end scenario the composite is the status line followed
\* by the GPU0 section only.
C10_EmptyLogSuppressed ==
    /\ LogsCollected =>
          Len(ret.logs) = Cardinality({i \in 1..Len(ret.resolved) :
                                          Contributes(ret.resolved[i])})
    /\ EndToEnd =>
          ret.err = BuildError(<<"status=", "cl: Build Program Failure", NL,
                                 "GPU", "0", ":", NL, "error: syntax">>)

\* the end-to-end scenario has happened
C10_Witness == EndToEnd /\ Len(ret.logs) = 1 /\ ret.err.kind = "BuildError"


\* the associated-devices query fails: the guard on the handle or the native layer
DiscoveryFails == clProgram = NULL \/ ~DiscoveryAnswers

\* the error associatedDevices returns when the query fails
DiscoveryFailure ==
    IF clProgram = NULL THEN CL_INVALID_PROGRAM
    ELSE IF natDevices.sizeStatus # CL_SUCCESS THEN natDevices.sizeStatus
    ELSE natDevices.fetchStatus

\* a native build failed, no requested or cached device has an identity and
\* the associated devices cannot be queried
ResolutionFails ==
    /\ BuildFailed
    /\ SelectSeq(ret.requested \o pDevices, HasIdentity) = <<>>
    /\ DiscoveryFails

RECURSIVE Lines(_)
Lines(sections) ==
    IF sections = <<>> THEN <<>>
    ELSE <<NL>> \o Head(sections) \o Lines(Tail(sections))

\* no resolved device has a failed fetch or a log that is not blank
NoSection == \A i \in 1..Len(ret.resolved) : ~Contributes(ret.resolved[i])

\* C12: a failed Build whose aggregation yields no section returns the plain
\* status error of the original code; otherwise it returns a BuildError whose
\* first line is "status=<status error text>" followed by the sections in
\* resolution order, one per line.
C12_Composition ==
    BuildFailed /\ ~ResolutionFails =>
        IF NoSection
        THEN ret.logs = <<>> /\ ret.err = toError(ret.status)
        ELSE /\ ret.logs # <<>>
             /\ ret.err = BuildError(<<"status=">> \o StatusText(ret.status)
                                     \o Lines(ret.logs))

\* the one resolved device has a blank log: the status error alone
C12_Witness ==
    /\ BuildFailed /\ ~ResolutionFails /\ Len(ret.resolved) = 1 /\ NoSection
    /\ natLog[ret.resolved[1]].buf = <<SP, NL>>
    /\ ret.err = toError(CL_BUILD_PROGRAM_FAILURE)


\* C13 as stated: a BuildError comes only from a failed build that recovered
\* the non-empty log of a device; without such a log the failed build
\* yields a StatusError.
C13_BuildErrorAsStated ==
    /\ ret.err.kind = "BuildError" =>
          BuildFailed /\ \E i \in 1..Len(ret.resolved) : HasLog(ret.resolved[i])
    /\ BuildFailed /\ ~ResolutionFails
          /\ (\A i \in 1..Len(ret.resolved) : ~HasLog(ret.resolved[i]))
          => ret.err.kind = "StatusError"

\* C13: a BuildError comes only from a failed build, and a failed build
\* whose devices were resolved returns a BuildError exactly when a device
\* gave a section, a non-empty log or an "unable to fetch build log" line;
\* with no section at all it returns the StatusError.
C13_BuildErrorOnlyWithSections ==
    /\ ret.err.kind = "BuildError" => BuildFailed /\ ~ResolutionFails
    /\ BuildFailed /\ ~ResolutionFails =>
          /\ ret.err.kind = "BuildError" <=> ~NoSection
          /\ ret.err.kind = "StatusError" <=> NoSection

\* every log fetch failed on a live Program and Build returned a BuildError
C13_Witness ==
    /\ BuildFailed /\ clProgram # NULL /\ Len(ret.resolved) = 1
    /\ FetchFails(ret.resolved[1]) /\ ret.err.kind = "BuildError"
    /\ Contains(ret.err.text, <<": <unable to fetch build log: ">>)


\* the documented label of a non-nil device: its trimmed name when the name
\* resolves to a non-empty string, else the label made from its identity token
DocumentedLabel(d) ==
    IF natName[d] # PANIC /\ TrimSpace(natName[d]) # <<>>
    THEN TrimSpace(natName[d])
    ELSE <<"device@0x">> \o Hex(deviceIDKey(d))

\* section starts with label and the separator of one of the two formats
LabelledBy(section, label) ==
    /\ Len(section) > Len(label)
    /\ SubSeq(section, 1, Len(label)) = label
    /\ section[Len(label) + 1] \in {":", ": <unable to fetch build log: "}

\* C14: label resolution never raises and gives the documented label: the
\* section of every resolved device starts with the device name when it
\* resolves to a non-empty string and otherwise, also when the name
\* resolution panics, with the label "device@0x<token in hex>".
C14_LabelAsDocumented ==
    BuildFailed /\ ~ResolutionFails =>
        \A i \in 1..Len(ret.resolved) :
            Contributes(ret.resolved[i]) =>
                /\ SectionIndex(i) <= Len(ret.logs)
                /\ LabelledBy(ret.logs[SectionIndex(i)], DocumentedLabel(ret.resolved[i]))


\* C15: GetBuildLog leaves the handle and the cached device list as they
\* were, and a second call with the same device straight after the first
\* returns the same result.
C15_GetBuildLogPure ==
    [][ret'.op = "GetBuildLog" =>
          /\ clProgram' = clProgram /\ pDevices' = pDevices /\ released' = released
          /\ ret.op = "GetBuildLog" /\ ret'.device = ret.device =>
                ret'.err = ret.err /\ ret'.log = ret.log]_vars

\* a second call has returned the log of a Program with cached devices
C15_Witness ==
    /\ ret.op = "GetBuildLog" /\ ret.again /\ ret.err = NoError /\ ret.log # <<>>
    /\ pDevices # <<>>


\* C16: under every interleaving of GetBuildLog calls on a built, unreleased
\* Program each call returns what it returns when run alone, and the handle
\* and the cached device list stay as they were.
C16_ConcurrentGetBuildLog ==
    /\ [](\A t \in Callers :
             callers[t].pc = "done" =>
                 /\ callers[t].err = GetBuildLog(callers[t].device).err
                 /\ callers[t].log = GetBuildLog(callers[t].device).log)
    /\ [][clProgram' = clProgram /\ pDevices' = pDevices /\ released' = released]_vars

\* a call has returned the log of one device while a call for another
\* device holds its fetched buffer
C16_Witness ==
    \E t, u \in Callers :
        /\ callers[t].pc = "done" /\ callers[t].log # <<>>
        /\ callers[u].pc = "trim" /\ callers[u].device # callers[t].device
        /\ clProgram = H /\ pDevices = Ascending


\* C17: whenever the native build reports a non-success status, Build returns
\* a non-nil error whose text contains the translated original status; a
\* failure of the diagnostic collection appears only inside that text and a
\* returned status error always carries the original status.
C17_OriginalFailureOperative ==
    BuildFailed =>
        /\ ret.err # NoError
        /\ Contains(ErrorText(ret.err), StatusText(ret.status))
        /\ ret.err.kind = "StatusError" => ret.err.code = ret.status

\* a compile failure whose diagnostics hold a failure of another status:
\* the device query ran out of memory, or a log fetch was rejected
C17_Witness ==
    /\ BuildFailed /\ ret.status = CL_BUILD_PROGRAM_FAILURE
    /\ \/ /\ ret.discovered /\ ret.resolved = <<>> /\ clProgram # NULL
          /\ natDevices.sizeStatus = CL_OUT_OF_HOST_MEMORY
          /\ ret.err.kind = "errorString"
       \/ /\ ret.err.kind = "BuildError" /\ Len(ret.requested) = 2
          /\ Contains(ret.err.text, StatusText(CL_INVALID_VALUE))


\* C18: a successful Build with an empty list on a Program that has cached
\* devices leaves the cache as it was and does not query the associated
\* devices; on the success path the query runs only for an empty request on
\* an empty cache.
C18_NoRediscovery ==
    [][ret'.op = "Build" /\ ret'.status = CL_SUCCESS =>
          /\ ret'.discovered => ret'.requested = <<>> /\ pDevices = <<>>
          /\ ret'.requested = <<>> /\ pDevices # <<>> =>
                pDevices' = pDevices /\ ~ret'.discovered]_vars

\* an empty-list Build succeeded on a cache that differs from what the
\* native layer would have reported
C18_Witness ==
    /\ BuildSucceeded /\ ret.requested = <<>> /\ ~ret.discovered
    /\ pDevices # <<>> /\ DiscoveryAnswers
    /\ SelectSeq(natDevices.ids, NonNullId) # <<>>
    /\ pDevices # SelectSeq(natDevices.ids, NonNullId)

\* C19: a failed Build leaves the handle and the cached device list as they
\* were, also when its log collection discovered devices.
C19_FailedBuildFrame ==
    [][ret'.op = "Build" /\ ret'.status # CL_SUCCESS =>
          clProgram' = clProgram /\ pDevices' = pDevices /\ released' = released]_vars

\* a failed Build discovered devices for its logs and the cache is empty
C19_Witness ==
    /\ BuildFailed /\ ret.discovered /\ ret.resolved # <<>>
    /\ clProgram # NULL /\ pDevices = <<>>

\* C20: a Program whose handle is released has an empty cached device list.
C20_CacheOnlyWithHandle ==
    clProgram = NULL => pDevices = <<>>

\* a Build with devices was tried on a released Program and was rejected
C20_Witness ==
    /\ IsBuild /\ clProgram = NULL /\ released = <<H>>
    /\ Len(ret.requested) > 0 /\ ret.status = CL_INVALID_PROGRAM
    /\ pDevices = <<>>

====
